---- MODULE Spec2Model ----
(***************************************************************************)
(* The kubeconfig reconcile loop of cluster-capi-operator                  *)
(* (pkg/controllers/kubeconfig/kubeconfig.go) against a versioned store.   *)
(* Every store call of Reconcile / reconcileKubeconfig is one step, so two *)
(* loop instances interleave at the store calls.  Names are sequences of   *)
(* string pieces, so that fmt.Sprintf and strings.HasPrefix are computed.  *)
(***************************************************************************)
EXTENDS Integers, Sequences, FiniteSets, TLC

\* ------------------------------------------------------------- bounds
\* Writes of other parties in one behaviour: changes of the primary records
\* (Infrastructure, ServiceAccount, token secret) and annotations put on a
\* kubeconfig secret.
MaxChanges == 1
\* Transient store errors injected in one behaviour.
MaxFaults == 1

\* The loop instances (two operator processes reconciling the same store).
Loops == {1, 2}

\* ---------------------------------------------------------- constants
serviceAccountName == "cluster-capi-operator"
DefaultManagedNamespace == "openshift-cluster-api"
ClusterLabelName == "cluster.x-k8s.io/cluster-name"
ClusterSecretType == "cluster.x-k8s.io/secret"
TokenSecretType == "kubernetes.io/service-account-token"

\* Retry budget of one status write (spec section 4.5).
MaxAttempts == 2

\* r.SupportedPlatforms: only the keys are consulted (line 65).
SupportedPlatforms == [aws |-> TRUE, azure |-> FALSE]

\* strings.ToLower on the platform types of the model.
ToLower(s) ==
  CASE s = "AWS" -> "aws"
    [] s = "Azure" -> "azure"
    [] s = "BareMetal" -> "baremetal"
    [] OTHER -> s

\* strings.HasPrefix on names held as sequences of pieces.
HasPrefix(s, p) == Len(s) >= Len(p) /\ SubSeq(s, 1, Len(p)) = p

\* fmt.Sprintf("%s-token", serviceAccountName)
TokenPrefix == <<serviceAccountName, "-token">>

\* A record key that reuses the key of the token secret read just before.
KubeconfigNameOfTokenSecret(c) == <<serviceAccountName, "-token", "-a">>

\* fmt.Sprintf("%s-kubeconfig", r.clusterName)
KubeconfigName(c) == <<c, "-kubeconfig">>

\* ------------------------------------------------------ value domains
TokA == <<serviceAccountName, "-token", "-a">>
TokB == <<serviceAccountName, "-token", "-b">>
Dockercfg == <<serviceAccountName, "-dockercfg", "-c">>
TokenNames == {TokA, TokB}

EmptyMap == [k \in {} |-> ""]
MapGet(m, k) == IF k \in DOMAIN m THEN m[k] ELSE ""

NoObj ==
  [name |-> <<>>, labels |-> EmptyMap, annotations |-> EmptyMap,
   data |-> EmptyMap, type |-> "", rv |-> 0]

TokenSecret(n, token, ca) ==
  [name |-> n, labels |-> EmptyMap, annotations |-> EmptyMap,
   data |-> (IF token = "" THEN EmptyMap ELSE [k \in {"token"} |-> token])
            @@ (IF ca = "" THEN EmptyMap ELSE [k \in {"ca.crt"} |-> ca]),
   type |-> TokenSecretType, rv |-> 1]

NoInfra == [exists |-> FALSE, platformStatus |-> FALSE, type |-> "", name |-> ""]
Infra(t, n) == [exists |-> TRUE, platformStatus |-> TRUE, type |-> t, name |-> n]
InfraStates ==
  {NoInfra,
   [exists |-> TRUE, platformStatus |-> FALSE, type |-> "", name |-> "c1"],
   Infra("BareMetal", "c1"), Infra("Azure", "c1"),
   Infra("AWS", "c1"), Infra("AWS", "c2"), Infra("AWS", "")}

NoServiceAccount == [exists |-> FALSE, secrets |-> <<>>]
ServiceAccount(refs) == [exists |-> TRUE, secrets |-> refs]
ServiceAccountStates ==
  {NoServiceAccount, ServiceAccount(<<>>), ServiceAccount(<<Dockercfg>>),
   ServiceAccount(<<Dockercfg, TokA>>), ServiceAccount(<<TokA, TokB>>),
   ServiceAccount(<<TokB, Dockercfg, TokA>>)}

TokenDatas ==
  {<<"dGVzdA==", "dGVzdA==">>, <<"dDI=", "dGVzdA==">>,
   <<"", "dGVzdA==">>, <<"dGVzdA==", "">>}

Hosts == {"https://example.com", ""}

\* ------------------------------------------- derivation and encoding
\* The token as the generated document carries it (generate_test.go:15,37:
\* token "dGVzdA==" gives Token "test").
DecodeToken(t) ==
  CASE t = "dGVzdA==" -> "test"
    [] t = "dDI=" -> "t2"
    [] OTHER -> t

NoConfig == [ok |-> FALSE, clusters |-> EmptyMap, contexts |-> EmptyMap,
             authInfos |-> EmptyMap]

\* A derivation that does not look at the CA certificate before building.
generateKubeconfigUncheckedCA(token, caCert, apiServerEnpoint, clusterName) ==
  IF token = "" \/ apiServerEnpoint = "" \/ clusterName = ""
  THEN NoConfig
  ELSE [ok |-> TRUE,
        clusters |-> [k \in {clusterName} |->
                        [server |-> apiServerEnpoint, ca |-> caCert]],
        contexts |-> [k \in {clusterName} |->
                        [cluster |-> clusterName,
                         authInfo |-> serviceAccountName,
                         namespace |-> DefaultManagedNamespace]],
        authInfos |-> [k \in {serviceAccountName} |->
                        [token |-> DecodeToken(token)]]]

\* A derivation that puts the token into the document as it came.
generateKubeconfigRawToken(token, caCert, apiServerEnpoint, clusterName) ==
  IF token = "" \/ caCert = "" \/ apiServerEnpoint = "" \/ clusterName = ""
  THEN NoConfig
  ELSE [ok |-> TRUE,
        clusters |-> [k \in {clusterName} |->
                        [server |-> apiServerEnpoint, ca |-> caCert]],
        contexts |-> [k \in {clusterName} |->
                        [cluster |-> clusterName,
                         authInfo |-> serviceAccountName,
                         namespace |-> DefaultManagedNamespace]],
        authInfos |-> [k \in {serviceAccountName} |-> [token |-> token]]]

\* generateKubeconfig(kubeconfigOptions): any empty input fails with a nil
\* document; otherwise one cluster, one context and one auth entry.
generateKubeconfig(token, caCert, apiServerEnpoint, clusterName) ==
  IF token = "" \/ caCert = "" \/ apiServerEnpoint = "" \/ clusterName = ""
  THEN NoConfig
  ELSE [ok |-> TRUE,
        clusters |-> [k \in {clusterName} |->
                        [server |-> apiServerEnpoint, ca |-> caCert]],
        contexts |-> [k \in {clusterName} |->
                        [cluster |-> clusterName,
                         authInfo |-> serviceAccountName,
                         namespace |-> DefaultManagedNamespace]],
        authInfos |-> [k \in {serviceAccountName} |->
                        [token |-> DecodeToken(token)]]]

\* clientcmd.Write: the document as bytes, deterministic in the document
\* (a document that generateKubeconfig returned always serialises, so the
\* error return of lines 136-138 is not taken).
Write(kubeconfig) == <<"kubeconfig.yaml", kubeconfig>>

\* The desired secret built at lines 140-152; it carries no resource
\* version and no annotations.
KubeconfigSecret(clusterName, out) ==
  [name |-> KubeconfigName(clusterName),
   labels |-> [k \in {ClusterLabelName} |-> clusterName],
   annotations |-> EmptyMap,
   data |-> [k \in {"value"} |-> out],
   type |-> ClusterSecretType,
   rv |-> 0]

\* A mutate function that also notes the revision it saw.
MutateFnStamped(obj, copy) ==
  [obj EXCEPT !.name = copy.name, !.labels = copy.labels,
              !.annotations = [k \in {"previous"} |-> obj.rv],
              !.rv = copy.rv, !.data = copy.data, !.type = copy.type]

\* A mutate function that forgets the payload (no line 157).
MutateFnWithoutData(obj, copy) ==
  [obj EXCEPT !.name = copy.name, !.labels = copy.labels,
              !.annotations = copy.annotations, !.rv = copy.rv,
              !.type = copy.type]

\* The mutate function handed to CreateOrPatch (lines 155-160): the whole
\* ObjectMeta (name, labels, annotations, resource version), Data and Type
\* of the object that Get filled in are replaced by the desired copy's.
MutateFn(obj, copy) ==
  [obj EXCEPT !.name = copy.name, !.labels = copy.labels,
              !.annotations = copy.annotations, !.rv = copy.rv,
              !.data = copy.data, !.type = copy.type]

\* ----------------------------------------------- merge patch (store)
\* The JSON merge patch of one map field: a map that became empty is
\* omitted from the modified document, so the patch deletes the field
\* (all); otherwise the patch sets the keys whose value differs (set) and
\* deletes the keys that are gone (del).
MapDiff(before, after) ==
  IF after = EmptyMap /\ before # EmptyMap
  THEN [all |-> TRUE, set |-> EmptyMap, del |-> {}]
  ELSE [all |-> FALSE,
        set |-> [k \in {x \in DOMAIN after :
                          x \notin DOMAIN before \/ before[x] # after[x]}
                 |-> after[k]],
        del |-> DOMAIN before \ DOMAIN after]

MapApply(m, p) ==
  IF p.all THEN EmptyMap
  ELSE [k \in ((DOMAIN m) \ p.del) \cup DOMAIN p.set
        |-> IF k \in DOMAIN p.set THEN p.set[k] ELSE m[k]]

\* client.MergeFrom(before).Data(after): the patch CreateOrPatch sends.
\* The resource version is in it only as a deletion (after.rv = 0), so
\* the patch carries no precondition on the stored revision.
MergeFrom(before, after) ==
  [labels |-> MapDiff(before.labels, after.labels),
   annotations |-> MapDiff(before.annotations, after.annotations),
   data |-> MapDiff(before.data, after.data),
   type |-> IF before.type # after.type THEN <<after.type>> ELSE <<>>]

Content(o) == [o EXCEPT !.rv = 0]

\* The store applying a merge patch to the record it holds now; the
\* revision moves only when the record's content does.
ApplyPatch(stored, p) ==
  LET new == [stored EXCEPT
                !.labels = MapApply(stored.labels, p.labels),
                !.annotations = MapApply(stored.annotations, p.annotations),
                !.data = MapApply(stored.data, p.data),
                !.type = IF p.type = <<>> THEN stored.type ELSE p.type[1]]
  IN IF Content(new) = Content(stored) THEN stored
     ELSE [new EXCEPT !.rv = stored.rv + 1]

\* ------------------------------------- watch predicates (event filters)
\* The fixed names the filters compare with (watch_predicates.go:21,35,49).
clusterOperatorName == "cluster-api"
infrastructureResourceName == "cluster"
externalFeatureGateName == "cluster"

\* A runtime.Object as a filter sees it: its Go type and its name.
\* NilObject is the nil interface of a malformed notification.
NilObject == [kind |-> "nil", name |-> ""]
Kinds == {"ClusterOperator", "Infrastructure", "FeatureGate", "Cluster"}
ObjectNames == {clusterOperatorName, infrastructureResourceName, "other"}
Objects ==
  {[kind |-> k, name |-> n] : k \in Kinds, n \in ObjectNames} \cup {NilObject}

\* The notifications: Create, Delete and Generic carry Object; Update
\* carries ObjectOld and ObjectNew, two versions of one object.
NoEvent ==
  [type |-> "", object |-> NilObject, objectOld |-> NilObject,
   objectNew |-> NilObject]
Events ==
  {[type |-> t, object |-> o, objectOld |-> NilObject, objectNew |-> NilObject]
     : t \in {"Create", "Delete", "Generic"}, o \in Objects}
  \cup
  {[type |-> "Update", object |-> NilObject, objectOld |-> o, objectNew |-> o]
     : o \in Objects}

\* An infrastructure check that forgets the type assertion.
isInfrastructureClusterAnyKind(obj) == obj.name = infrastructureResourceName

\* Lines 19-22, 33-36, 47-50: the type assertion and the name comparison.
isClusterOperatorCluster(obj) ==
  obj.kind = "ClusterOperator" /\ obj.name = clusterOperatorName
isInfrastructureCluster(obj) ==
  obj.kind = "Infrastructure" /\ obj.name = infrastructureResourceName
isFeatureGateCluster(obj) ==
  obj.kind = "FeatureGate" /\ obj.name = externalFeatureGateName

\* predicate.Funcs (lines 24-29, 38-43, 52-57): CreateFunc, GenericFunc
\* and DeleteFunc hand e.Object to the closure, UpdateFunc e.ObjectNew.
FuncsObject(e) ==
  CASE e.type = "Create" -> e.object
    [] e.type = "Update" -> e.objectNew
    [] e.type = "Generic" -> e.object
    [] e.type = "Delete" -> e.object

clusterOperatorPredicates(e) == isClusterOperatorCluster(FuncsObject(e))
infrastructurePredicates(e) == isInfrastructureCluster(FuncsObject(e))
featureGatePredicates(e) == isFeatureGateCluster(FuncsObject(e))

NoAdmit ==
  [clusterOperator |-> FALSE, infrastructure |-> FALSE, featureGate |-> FALSE]

\* The inputs generateKubeconfig is called with (kubeconfigOptions).
NoOptions == [token |-> "", caCert |-> "", apiServerEnpoint |-> "", clusterName |-> ""]
Options ==
  [token : {"", "dGVzdA==", "dDI="}, caCert : {"", "dGVzdA==", "Y2E="},
   apiServerEnpoint : {"", "https://example.com", "https://api.c1:6443"},
   clusterName : {"", "test", "c1", "c2"}]

\* -------------------------------------------------------------- state
VARIABLES
  infra,            \* the Infrastructure record "cluster"
  serviceAccount,   \* the ServiceAccount cluster-capi-operator
  secrets,          \* the Secrets of the managed namespace, by name
  host,             \* r.RestCfg.Host
  clusterOperator,  \* the Aggregate Status Record: revision and conditions
  queue,            \* queue[l]: a trigger is pending for loop l
  pc,               \* pc[l]: the store call loop l is about to make
  clusterName,      \* r.clusterName of each loop instance
  local,            \* the locals of the running invocation of each loop
  ops,              \* the steps the running invocation has taken, in order
  changes, faults,  \* what the environment may still do
  notification,     \* the last notification handed to the event filters
  admit,            \* what each filter answered for it
  options,          \* the last kubeconfigOptions handed to generateKubeconfig
  document          \* what generateKubeconfig returned for them

vars == <<infra, serviceAccount, secrets, host, clusterOperator, queue, pc,
          clusterName, local, ops, changes, faults, notification, admit,
          options, document>>

primary == <<infra, serviceAccount, host>>
env == <<changes>>
calls == <<notification, admit, options, document>>

\* No filter and no derivation has been called on its own.
NoCall ==
  /\ notification = NoEvent /\ admit = NoAdmit
  /\ options = NoOptions /\ document = NoConfig

NoLocal ==
  [infra |-> NoInfra, tokenSecretRef |-> <<>>, kubeconfigSecret |-> NoObj, obj |-> NoObj,
   co |-> [rev |-> 0, conds |-> [l \in Loops |-> ""]],
   attempts |-> 0, outcome |-> "", err |-> FALSE, statusErr |-> FALSE,
   result |-> ""]

Init ==
  /\ infra \in InfraStates
  /\ serviceAccount = ServiceAccount(<<Dockercfg, TokA>>)
  /\ secrets = [n \in {TokA} |-> TokenSecret(TokA, "dGVzdA==", "dGVzdA==")]
  /\ host \in Hosts
  /\ clusterOperator = [rev |-> 0, conds |-> [l \in Loops |-> ""]]
  /\ queue = [l \in Loops |-> FALSE]
  /\ pc = [l \in Loops |-> "idle"]
  /\ clusterName = [l \in Loops |-> ""]
  /\ local = [l \in Loops |-> NoLocal]
  /\ ops = [l \in Loops |-> <<>>]
  /\ changes = MaxChanges /\ faults = MaxFaults
  /\ NoCall

\* A store call either goes through or, while the budget lasts, fails with
\* a transient error.
FaultChoices == IF faults > 0 THEN {FALSE, TRUE} ELSE {FALSE}
Inject(fault) == faults' = IF fault THEN faults - 1 ELSE faults

\* The step taken, the next store call, and the locals.
Step(l, op, next, loc) ==
  /\ pc' = [pc EXCEPT ![l] = next]
  /\ local' = [local EXCEPT ![l] = loc]
  /\ ops' = [ops EXCEPT ![l] = Append(@, op)]

\* A failure path that reports Available.
DegradedAsAvailable(l, op) ==
  Step(l, op, "statusGet",
       [local[l] EXCEPT !.outcome = "Available", !.err = TRUE, !.attempts = 0])

\* A failure path that returns nil instead of the error.
DegradedReturnsNil(l, op) ==
  Step(l, op, "statusGet",
       [local[l] EXCEPT !.outcome = "Degraded", !.attempts = 0])

\* Reconcile's two ways to its status write: SetStatusDegraded(err) then
\* return err (lines 47-51, 75-79), or SetStatusAvailable (lines 56, 67, 82).
Degraded(l, op) ==
  Step(l, op, "statusGet",
       [local[l] EXCEPT !.outcome = "Degraded", !.err = TRUE, !.attempts = 0])
Available(l, op, loc) ==
  Step(l, op, "statusGet", [loc EXCEPT !.outcome = "Available", !.attempts = 0])

\* ------------------------------------------------- the reconcile loop
\* A gate that asks for the value stored under the key.
SupportedByValue(type) ==
  /\ ToLower(type) \in DOMAIN SupportedPlatforms
  /\ SupportedPlatforms[ToLower(type)]

\* A gate that lets every platform through.
SupportedAlways(type) == TRUE

\* Line 65: the lower-cased platform type is a key of SupportedPlatforms.
Supported(type) == ToLower(type) \in DOMAIN SupportedPlatforms

\* The Cluster objects whose events trigger the loop; a request names one.
Requests == {"cluster", "workload"}

\* An r.clusterName that is set once and then kept.
ClusterNameKept(l, infraRead) ==
  IF clusterName[l] # "" THEN clusterName[l] ELSE infraRead.name

\* Line 62: r.clusterName = infra.Status.InfrastructureName.
ClusterNameOf(l, infraRead) == infraRead.name

\* A Reconcile that reads the Infrastructure record under the request's name.
ReconcileByRequestName(l, req) ==
  /\ pc[l] = "idle" /\ queue[l]
  /\ queue' = [queue EXCEPT ![l] = FALSE]
  /\ \E fault \in FaultChoices :
       /\ Inject(fault)
       /\ IF fault \/ ~infra.exists \/ req # infrastructureResourceName
          THEN Degraded(l, "getInfra:err") /\ UNCHANGED clusterName
          ELSE LET loc == [local[l] EXCEPT !.infra = infra]
               IN IF ~infra.platformStatus
                  THEN /\ Available(l, "getInfra:skip", loc)
                       /\ UNCHANGED clusterName
                  ELSE /\ clusterName' =
                            [clusterName EXCEPT ![l] = ClusterNameOf(l, infra)]
                       /\ IF ~Supported(infra.type)
                          THEN Available(l, "getInfra:skip", loc)
                          ELSE Step(l, "getInfra:ok", "getServiceAccount", loc)
  /\ UNCHANGED calls
  /\ UNCHANGED <<primary, secrets, clusterOperator, env>>

\* Reconcile(ctx, _ ctrl.Request), lines 44-72: read the Infrastructure
\* record under its fixed name, the applicability gate, r.clusterName.
\* The request is a parameter the body never names.
ReconcileRequest(l, req) ==
  /\ pc[l] = "idle" /\ queue[l]
  /\ queue' = [queue EXCEPT ![l] = FALSE]
  /\ \E fault \in FaultChoices :
       /\ Inject(fault)
       /\ IF fault \/ ~infra.exists
          THEN Degraded(l, "getInfra:err") /\ UNCHANGED clusterName
          ELSE LET loc == [local[l] EXCEPT !.infra = infra]
               IN IF ~infra.platformStatus
                  THEN /\ Available(l, "getInfra:skip", loc)
                       /\ UNCHANGED clusterName
                  ELSE /\ clusterName' =
                            [clusterName EXCEPT ![l] = ClusterNameOf(l, infra)]
                       /\ IF ~Supported(infra.type)
                          THEN Available(l, "getInfra:skip", loc)
                          ELSE Step(l, "getInfra:ok", "getServiceAccount", loc)
  /\ UNCHANGED calls
  /\ UNCHANGED <<primary, secrets, clusterOperator, env>>

\* The work queue hands Reconcile the request of some Cluster object.
Reconcile(l) == \E req \in Requests : ReconcileRequest(l, req)

\* A selection loop that stops at the first reference with the prefix.
FindFirstTokenSecretRef(refs) ==
  LET matches == {i \in 1..Len(refs) : HasPrefix(refs[i], TokenPrefix)}
  IN IF matches = {} THEN <<>>
     ELSE refs[CHOOSE i \in matches : \A j \in matches : i <= j]

\* Lines 97-104: the last reference whose name has the prefix; <<>> is nil.
FindTokenSecretRef(refs) ==
  LET matches == {i \in 1..Len(refs) : HasPrefix(refs[i], TokenPrefix)}
  IN IF matches = {} THEN <<>>
     ELSE refs[CHOOSE i \in matches : \A j \in matches : j <= i]

\* reconcileKubeconfig, lines 86-109: read the service account and pick
\* the token secret reference.
GetServiceAccount(l) ==
  /\ pc[l] = "getServiceAccount"
  /\ \E fault \in FaultChoices :
       /\ Inject(fault)
       /\ IF fault \/ ~serviceAccount.exists
          THEN Degraded(l, "getServiceAccount:err")
          ELSE LET ref == FindTokenSecretRef(serviceAccount.secrets)
               IN IF ref = <<>>
                  THEN Degraded(l, "findTokenSecretRef:err")
                  ELSE Step(l, "getServiceAccount:ok", "getTokenSecret",
                            [local[l] EXCEPT !.tokenSecretRef = ref])
  /\ UNCHANGED calls
  /\ UNCHANGED <<primary, secrets, clusterOperator, queue, clusterName, env>>

\* A step that logs the derivation error and goes on to the upsert.
GetTokenSecretIgnoringError(l) ==
  /\ pc[l] = "getTokenSecret"
  /\ \E fault \in FaultChoices :
       /\ Inject(fault)
       /\ IF fault \/ local[l].tokenSecretRef \notin DOMAIN secrets
          THEN Degraded(l, "getTokenSecret:err")
          ELSE LET tokenSecret == secrets[local[l].tokenSecretRef]
                   kubeconfig ==
                     generateKubeconfig(MapGet(tokenSecret.data, "token"),
                                        MapGet(tokenSecret.data, "ca.crt"),
                                        host, clusterName[l])
               IN Step(l, IF kubeconfig.ok THEN "generateKubeconfig:ok"
                          ELSE "generateKubeconfig:err",
                       "createOrPatchGet",
                       [local[l] EXCEPT !.kubeconfigSecret =
                          KubeconfigSecret(clusterName[l], Write(kubeconfig))])
  /\ UNCHANGED calls
  /\ UNCHANGED <<primary, secrets, clusterOperator, queue, clusterName, env>>

\* reconcileKubeconfig, lines 111-152: read the token secret, derive the
\* document, serialise it and build the desired secret.
GetTokenSecret(l) ==
  /\ pc[l] = "getTokenSecret"
  /\ \E fault \in FaultChoices :
       /\ Inject(fault)
       /\ IF fault \/ local[l].tokenSecretRef \notin DOMAIN secrets
          THEN Degraded(l, "getTokenSecret:err")
          ELSE LET tokenSecret == secrets[local[l].tokenSecretRef]
                   kubeconfig ==
                     generateKubeconfig(MapGet(tokenSecret.data, "token"),
                                        MapGet(tokenSecret.data, "ca.crt"),
                                        host, clusterName[l])
               IN IF ~kubeconfig.ok
                  THEN Degraded(l, "generateKubeconfig:err")
                  ELSE Step(l, "generateKubeconfig:ok", "createOrPatchGet",
                            [local[l] EXCEPT !.kubeconfigSecret =
                               KubeconfigSecret(clusterName[l], Write(kubeconfig))])
  /\ UNCHANGED calls
  /\ UNCHANGED <<primary, secrets, clusterOperator, queue, clusterName, env>>

\* An upsert that never looks: it creates whatever the store holds.
CreateWithoutGet(l) ==
  /\ pc[l] = "createOrPatchGet"
  /\ \E fault \in FaultChoices :
       /\ Inject(fault)
       /\ IF fault
          THEN Degraded(l, "createOrPatch:err")
          ELSE Step(l, "createOrPatch:get", "create", local[l])
  /\ UNCHANGED calls
  /\ UNCHANGED <<primary, secrets, clusterOperator, queue, clusterName, env>>

\* controllerutil.CreateOrPatch (lines 155-162), its Get: not found leads
\* to Create, found fills the object in and leads to Patch.
CreateOrPatchGet(l) ==
  /\ pc[l] = "createOrPatchGet"
  /\ \E fault \in FaultChoices :
       /\ Inject(fault)
       /\ IF fault
          THEN Degraded(l, "createOrPatch:err")
          ELSE IF local[l].kubeconfigSecret.name \notin DOMAIN secrets
          THEN Step(l, "createOrPatch:get", "create", local[l])
          ELSE Step(l, "createOrPatch:get", "patch",
                    [local[l] EXCEPT !.obj = secrets[local[l].kubeconfigSecret.name]])
  /\ UNCHANGED calls
  /\ UNCHANGED <<primary, secrets, clusterOperator, queue, clusterName, env>>

\* CreateOrPatch, the not-found branch: mutate, then Create; the store
\* assigns the first revision, and refuses a name that exists by now.
CreateOrPatchCreate(l) ==
  /\ pc[l] = "create"
  /\ \E fault \in FaultChoices :
       /\ Inject(fault)
       /\ LET new == MutateFn(local[l].kubeconfigSecret, local[l].kubeconfigSecret)
          IN IF fault \/ new.name \in DOMAIN secrets
             THEN Degraded(l, "create:err") /\ UNCHANGED secrets
             ELSE /\ secrets' = secrets @@ (new.name :> [new EXCEPT !.rv = 1])
                  /\ Available(l, "create:ok", local[l])
  /\ UNCHANGED calls
  /\ UNCHANGED <<primary, clusterOperator, queue, clusterName, env>>

\* CreateOrPatch, the found branch: mutate the object read, send the merge
\* patch of the two; the store applies it to what it holds now.  The
\* patch is always sent: the object read has a revision and the mutated
\* one has none, so the two differ.
CreateOrPatchPatch(l) ==
  /\ pc[l] = "patch"
  /\ \E fault \in FaultChoices :
       /\ Inject(fault)
       /\ LET before == local[l].obj
              after == MutateFn(before, local[l].kubeconfigSecret)
          IN IF fault \/ before.name \notin DOMAIN secrets
             THEN Degraded(l, "patch:err") /\ UNCHANGED secrets
             ELSE /\ secrets' = [secrets EXCEPT ![before.name] =
                                   ApplyPatch(@, MergeFrom(before, after))]
                  /\ Available(l, "patch:ok", local[l])
  /\ UNCHANGED calls
  /\ UNCHANGED <<primary, clusterOperator, queue, clusterName, env>>

\* ------------------------------------------ the aggregate status writer
\* A return that forgets the error of the status write.
FinishIgnoringStatusError(l, statusErr) ==
  [local[l] EXCEPT !.statusErr = statusErr,
                   !.result = IF local[l].err THEN "err" ELSE "nil"]

\* What Reconcile returns once its status write is over: the write's own
\* error (lines 49, 57, 68, 82), else the step's error (lines 51, 79).
Finish(l, statusErr) ==
  [local[l] EXCEPT !.statusErr = statusErr,
                   !.result = IF statusErr \/ local[l].err THEN "err" ELSE "nil"]

\* The conditions a writer computes from the record it read: its own
\* entry takes the outcome, the other entries are kept as read.
NewConditions(co, l, outcome) == [co.conds EXCEPT ![l] = outcome]

\* A writer that does not compare: it writes what it computed from the
\* record it read, whatever the record holds by now.
ConflictIgnored(co) == FALSE

\* The compare-and-write: it goes through only on the revision read.
Conflict(co) == co.rev # clusterOperator.rev

\* SetStatusAvailable / SetStatusDegraded, the read of the cycle.
StatusGet(l) ==
  /\ pc[l] = "statusGet"
  /\ \E fault \in FaultChoices :
       /\ Inject(fault)
       /\ IF fault
          THEN Step(l, "status:err", "return", Finish(l, TRUE))
          ELSE Step(l, "status:get", "statusUpdate",
                    [local[l] EXCEPT !.co = clusterOperator])
  /\ UNCHANGED calls
  /\ UNCHANGED <<primary, secrets, clusterOperator, queue, clusterName, env>>

\* A status write that repeats its cycle on every conflict, without a budget.
StatusUpdateRetryForever(l) ==
  /\ pc[l] = "statusUpdate"
  /\ \E fault \in FaultChoices :
       /\ Inject(fault)
       /\ IF fault
          THEN /\ Step(l, "status:err", "return", Finish(l, TRUE))
               /\ UNCHANGED clusterOperator
          ELSE IF Conflict(local[l].co)
          THEN /\ UNCHANGED clusterOperator
               /\ Step(l, "status:conflict", "statusGet",
                       [local[l] EXCEPT !.attempts = @ + 1])
          ELSE LET conds == NewConditions(local[l].co, l, local[l].outcome)
               IN /\ clusterOperator' =
                       [rev |-> IF conds = clusterOperator.conds
                                THEN clusterOperator.rev
                                ELSE clusterOperator.rev + 1,
                        conds |-> conds]
                  /\ Step(l, "status:ok", "return", Finish(l, FALSE))
  /\ UNCHANGED calls
  /\ UNCHANGED <<primary, secrets, queue, clusterName, env>>

\* The compare-and-write of the cycle: on a conflict the whole cycle is
\* repeated, up to MaxAttempts attempts, then the error is terminal.
StatusUpdate(l) ==
  /\ pc[l] = "statusUpdate"
  /\ \E fault \in FaultChoices :
       /\ Inject(fault)
       /\ IF fault
          THEN /\ Step(l, "status:err", "return", Finish(l, TRUE))
               /\ UNCHANGED clusterOperator
          ELSE IF Conflict(local[l].co)
          THEN /\ UNCHANGED clusterOperator
               /\ IF local[l].attempts + 1 < MaxAttempts
                  THEN Step(l, "status:conflict", "statusGet",
                            [local[l] EXCEPT !.attempts = @ + 1])
                  ELSE Step(l, "status:err", "return",
                            [Finish(l, TRUE) EXCEPT !.attempts = @ + 1])
          ELSE LET conds == NewConditions(local[l].co, l, local[l].outcome)
               IN /\ clusterOperator' =
                       [rev |-> IF conds = clusterOperator.conds
                                THEN clusterOperator.rev
                                ELSE clusterOperator.rev + 1,
                        conds |-> conds]
                  /\ Step(l, "status:ok", "return", Finish(l, FALSE))
  /\ UNCHANGED calls
  /\ UNCHANGED <<primary, secrets, queue, clusterName, env>>

\* Reconcile returns to the scheduler, which requeues the trigger on an
\* error; the locals are gone, r.clusterName stays.
Return(l) ==
  /\ pc[l] = "return"
  /\ pc' = [pc EXCEPT ![l] = "idle"]
  /\ queue' = [queue EXCEPT ![l] = @ \/ local[l].result = "err"]
  /\ local' = [local EXCEPT ![l] = NoLocal]
  /\ ops' = [ops EXCEPT ![l] = <<>>]
  /\ UNCHANGED calls
  /\ UNCHANGED <<primary, secrets, clusterOperator, clusterName, env, faults>>

\* ------------------------------------------------------ environment
\* SetupWithManager (lines 38-42): the loop is triggered by the events of
\* Cluster objects, and by nothing else.
ClusterEvent ==
  /\ queue' = [l \in Loops |-> TRUE]
  /\ UNCHANGED calls
  /\ UNCHANGED <<primary, secrets, clusterOperator, pc, clusterName, local,
                 ops, changes, faults>>

InfraChange ==
  /\ changes > 0
  /\ changes' = changes - 1
  /\ infra' \in InfraStates \ {infra}
  /\ UNCHANGED calls
  /\ UNCHANGED <<serviceAccount, host, secrets, clusterOperator, queue, pc,
                 clusterName, local, ops, faults>>

ServiceAccountChange ==
  /\ changes > 0
  /\ changes' = changes - 1
  /\ serviceAccount' \in ServiceAccountStates \ {serviceAccount}
  /\ UNCHANGED calls
  /\ UNCHANGED <<infra, host, secrets, clusterOperator, queue, pc,
                 clusterName, local, ops, faults>>

\* A token secret is rotated, damaged, created or deleted.
TokenSecretChange ==
  /\ changes > 0
  /\ changes' = changes - 1
  /\ \E n \in TokenNames :
       \/ /\ n \in DOMAIN secrets
          /\ secrets' = [m \in DOMAIN secrets \ {n} |-> secrets[m]]
       \/ \E d \in TokenDatas :
            LET new == TokenSecret(n, d[1], d[2])
            IN IF n \in DOMAIN secrets
               THEN /\ Content(new) # Content(secrets[n])
                    /\ secrets' = [secrets EXCEPT ![n] =
                                     [new EXCEPT !.rv = secrets[n].rv + 1]]
               ELSE secrets' = secrets @@ (n :> new)
  /\ UNCHANGED calls
  /\ UNCHANGED <<primary, clusterOperator, queue, pc, clusterName, local,
                 ops, faults>>

\* Somebody else annotates a kubeconfig secret.
Annotate ==
  /\ changes > 0
  /\ changes' = changes - 1
  /\ \E n \in DOMAIN secrets \ TokenNames :
       secrets' = [secrets EXCEPT ![n] =
                     [@ EXCEPT !.annotations = @ @@ [k \in {"note"} |-> "kept"],
                               !.rv = @ + 1]]
  /\ UNCHANGED calls
  /\ UNCHANGED <<primary, clusterOperator, queue, pc, clusterName, local,
                 ops, faults>>

LoopStep(l) ==
  \/ Reconcile(l)
  \/ GetServiceAccount(l)
  \/ GetTokenSecret(l)
  \/ CreateOrPatchGet(l)
  \/ CreateOrPatchCreate(l)
  \/ CreateOrPatchPatch(l)
  \/ StatusGet(l)
  \/ StatusUpdate(l)
  \/ Return(l)

Environment ==
  \/ ClusterEvent
  \/ InfraChange
  \/ ServiceAccountChange
  \/ TokenSecretChange
  \/ Annotate

\* One loop instance, the whole environment.
Next == LoopStep(1) \/ Environment

Spec == Init /\ [][Next]_vars

\* Two loop instances on a store that answers every call.
InitTwo ==
  /\ infra = Infra("AWS", "c1")
  /\ serviceAccount = ServiceAccount(<<Dockercfg, TokA>>)
  /\ secrets = [n \in {TokA} |-> TokenSecret(TokA, "dGVzdA==", "dGVzdA==")]
  /\ host = "https://example.com"
  /\ clusterOperator = [rev |-> 0, conds |-> [l \in Loops |-> ""]]
  /\ queue = [l \in Loops |-> FALSE]
  /\ pc = [l \in Loops |-> "idle"]
  /\ clusterName = [l \in Loops |-> ""]
  /\ local = [l \in Loops |-> NoLocal]
  /\ ops = [l \in Loops |-> <<>>]
  /\ changes = MaxChanges /\ faults = 0
  /\ NoCall

NextTwo == (\E l \in Loops : LoopStep(l)) \/ ClusterEvent \/ TokenSecretChange

SpecTwo == InitTwo /\ [][NextTwo]_vars

\* The scheduler runs a loop that has a step to take; nothing makes a
\* Cluster event or a change of the environment happen.
FairSpec == Spec /\ WF_vars(LoopStep(1))

\* ---------------------------------------- the filters and the derivation
\* on their own: each call is one step on inputs drawn from the domains.
Deliver ==
  /\ \E e \in Events :
       /\ notification' = e
       /\ admit' = [clusterOperator |-> clusterOperatorPredicates(e),
                    infrastructure |-> infrastructurePredicates(e),
                    featureGate |-> featureGatePredicates(e)]
  /\ UNCHANGED <<options, document>>
  /\ UNCHANGED <<primary, secrets, clusterOperator, queue, pc, clusterName,
                 local, ops, changes, faults>>

Generate ==
  /\ \E o \in Options \ {NoOptions} :
       /\ options' = o
       /\ document' = generateKubeconfig(o.token, o.caCert,
                                         o.apiServerEnpoint, o.clusterName)
  /\ UNCHANGED <<notification, admit>>
  /\ UNCHANGED <<primary, secrets, clusterOperator, queue, pc, clusterName,
                 local, ops, changes, faults>>

NextCalls == Deliver \/ Generate

SpecCalls == InitTwo /\ [][NextCalls]_vars

\* ------------------------------------------------------------- claims
Last(seq) == seq[Len(seq)]
Has(seq, x) == \E i \in 1..Len(seq) : seq[i] = x

\* C1: concurrent status writers lose no outcome.  A loop's condition
\* entry in the Aggregate Status Record changes only in that loop's own
\* compare-and-write, never in the write of another loop, and a write
\* that goes through leaves the writer's outcome in its entry: the
\* record holds every loop's latest written entry, not the last writer's
\* snapshot.
C1_NoLostOutcome ==
  [][\A l \in Loops :
       /\ clusterOperator'.conds[l] # clusterOperator.conds[l]
            => pc[l] = "statusUpdate" /\ pc'[l] = "return"
       /\ (pc[l] = "statusUpdate" /\ pc'[l] = "return" /\ ~local'[l].statusErr)
            => clusterOperator'.conds[l] = local[l].outcome]_vars

\* C1 witness: a writer met a conflict, repeated the cycle and wrote, and
\* the record holds two different outcomes, one of each loop.
C1_Witness ==
  \E l \in Loops :
    /\ pc[l] = "return" /\ ~local[l].statusErr
    /\ Has(ops[l], "status:conflict")
    /\ \A k \in Loops : clusterOperator.conds[k] # ""
    /\ clusterOperator.conds[1] # clusterOperator.conds[2]

\* The write step of an upsert of loop l (Create or Patch), and one that
\* the store accepted.
UpsertWrite(l) == pc[l] \in {"create", "patch"} /\ pc'[l] = "statusGet"
UpsertOk(l) == UpsertWrite(l) /\ ~local'[l].err

\* The records bound to cluster name c by their label.
RecordsOf(c) ==
  {n \in DOMAIN secrets : MapGet(secrets[n].labels, ClusterLabelName) = c}

\* C2: upsert idempotence.  An upsert that nobody interferes with (the
\* record is absent at Create, or is at Patch what Get read) leaves the
\* one record of its identity with exactly the desired content; and an
\* upsert whose desired record the store already holds succeeds and
\* leaves the whole store as it is, revision included: the state after a
\* second invocation is the state after the first.
C2_UpsertIdempotent ==
  [][\A l \in Loops :
       (UpsertWrite(l) /\ faults' = faults) =>
         LET d == local[l].kubeconfigSecret
             alone == \/ pc[l] = "create" /\ d.name \notin DOMAIN secrets
                      \/ /\ pc[l] = "patch" /\ d.name \in DOMAIN secrets
                         /\ secrets[d.name] = local[l].obj
             same == /\ d.name \in DOMAIN secrets
                     /\ Content(secrets[d.name]) = Content(d)
         IN /\ alone => /\ ~local'[l].err
                        /\ Content(secrets'[d.name]) = Content(d)
                        /\ RecordsOf(clusterName[l])' = {d.name}
            /\ same => ~local'[l].err /\ secrets' = secrets]_vars

\* C2 witness: a second upsert has acted on the record a first one left:
\* what its Get read had the desired content, and the store still holds
\* exactly that.
C2_Witness ==
  \E l \in Loops :
    /\ pc[l] = "statusGet" /\ Last(ops[l]) = "patch:ok"
    /\ Content(local[l].obj) = Content(local[l].kubeconfigSecret)
    /\ secrets[local[l].kubeconfigSecret.name] = local[l].obj

\* C3: the upsert of an existing record leaves the fields it does not own
\* untouched: a patch that goes through keeps the record's annotations.
C3_UnrelatedUntouched ==
  [][\A l \in Loops :
       (pc[l] = "patch" /\ UpsertOk(l)) =>
         secrets'[local[l].obj.name].annotations
           = secrets[local[l].obj.name].annotations]_vars

\* The fields the upsert owns: the cluster-name label, the payload, the type.
Owned(o) ==
  [label |-> MapGet(o.labels, ClusterLabelName), data |-> o.data,
   type |-> o.type]

Quiet == changes = MaxChanges /\ faults = MaxFaults

\* C5: convergence under duplicate triggers.  With the primary state
\* unchanged and the store answering, once a first trigger has been
\* processed to its status write, the triggers processed after it leave
\* every secret of the store as the first left it: N triggers end with the
\* same Secondary Secret Record as one.
C5_DuplicateTriggersConverge ==
  [][(Quiet /\ Quiet' /\ \E l \in Loops : clusterOperator.conds[l] # "")
       => secrets' = secrets]_vars

\* C5 witness: in such a run a second trigger has gone all the way to the
\* upsert of the record the first one created.
C5_Witness ==
  /\ Quiet
  /\ \E l \in Loops :
       /\ clusterOperator.conds[l] = "Available"
       /\ pc[l] = "statusGet" /\ Last(ops[l]) = "patch:ok"

\* The Secondary Secret Record that the primary state calls for (NoObj
\* when the loop has nothing to write for it).
DesiredOfPrimary ==
  LET ref == FindTokenSecretRef(serviceAccount.secrets)
  IN IF /\ infra.exists /\ infra.platformStatus /\ Supported(infra.type)
        /\ serviceAccount.exists /\ ref # <<>> /\ ref \in DOMAIN secrets
     THEN LET kubeconfig ==
                generateKubeconfig(MapGet(secrets[ref].data, "token"),
                                   MapGet(secrets[ref].data, "ca.crt"),
                                   host, infra.name)
          IN IF kubeconfig.ok
             THEN KubeconfigSecret(infra.name, Write(kubeconfig))
             ELSE NoObj
     ELSE NoObj

Converged ==
  DesiredOfPrimary # NoObj =>
    /\ DesiredOfPrimary.name \in DOMAIN secrets
    /\ Owned(secrets[DesiredOfPrimary.name]) = Owned(DesiredOfPrimary)

\* C6: eventual convergence.  Whenever the loop has reported Available
\* and the Secondary Secret Record is not the one the primary state calls
\* for (the primary state changed after the loop read it), a reconcile
\* eventually reads the new state and the record becomes the one called
\* for.
C6_EventuallyConverges ==
  ((\E l \in Loops : pc[l] = "idle" /\ clusterOperator.conds[l] = "Available")
     /\ ~Converged) ~> Converged

StatusOps == {"status:get", "status:conflict", "status:ok", "status:err"}
WriteOps == {"create:ok", "create:err", "patch:ok", "patch:err"}
StepErrOps ==
  {"getInfra:err", "getServiceAccount:err", "findTokenSecretRef:err",
   "getTokenSecret:err", "generateKubeconfig:err", "createOrPatch:err",
   "create:err", "patch:err"}

\* From its second step on, the invocation has made status calls only.
OnlyStatusAfterFirst(l) == \A i \in 2..Len(ops[l]) : ops[l][i] \in StatusOps

\* C7: primary record absent or unreadable.  An invocation whose read of
\* the Infrastructure record failed reports Degraded, makes no other call
\* than its status write (no credential read, no create or patch), and
\* returns an error; when the status write went through, the record says
\* Degraded.
C7_InfraReadFailure ==
  \A l \in Loops :
    (ops[l] # <<>> /\ ~local[l].infra.exists) =>
      /\ ops[l][1] = "getInfra:err"
      /\ local[l].outcome = "Degraded"
      /\ OnlyStatusAfterFirst(l)
      /\ pc[l] = "return" =>
           /\ local[l].result = "err"
           /\ ~local[l].statusErr => clusterOperator.conds[l] = "Degraded"

\* C7 witness: the Infrastructure record is absent (no fault injected),
\* the invocation has returned and the record says Degraded.
C7_Witness ==
  \E l \in Loops :
    /\ pc[l] = "return" /\ ops[l][1] = "getInfra:err" /\ ~infra.exists
    /\ faults = MaxFaults /\ clusterOperator.conds[l] = "Degraded"

\* The Infrastructure record read has no platform status, or a platform
\* type outside the supported set.
Gated(l) ==
  /\ local[l].infra.exists
  /\ \/ ~local[l].infra.platformStatus
     \/ ToLower(local[l].infra.type) \notin {"aws", "azure"}

\* C8: applicability gate.  An invocation that read an Infrastructure
\* record without platform status or with an unsupported platform type
\* reports Available, makes no other call than its status write (no
\* Secondary Secret Record is created or modified), and returns nil
\* exactly when the status write went through.
C8_ApplicabilityGate ==
  \A l \in Loops :
    Gated(l) =>
      /\ ops[l][1] = "getInfra:skip"
      /\ local[l].outcome = "Available"
      /\ OnlyStatusAfterFirst(l)
      /\ pc[l] = "return" =>
           /\ local[l].result = "nil" <=> ~local[l].statusErr
           /\ ~local[l].statusErr => clusterOperator.conds[l] = "Available"

\* C8 witness: an unsupported platform type, the invocation has returned
\* nil; and elsewhere a record without platform status.
C8_Witness ==
  \E l \in Loops :
    /\ pc[l] = "return" /\ local[l].infra.type = "BareMetal"
    /\ local[l].result = "nil" /\ clusterOperator.conds[l] = "Available"

StepErr(l) == \E i \in 1..Len(ops[l]) : ops[l][i] \in StepErrOps

\* C9: outcome reporting.  A step error ends the steps of the invocation
\* (only status calls follow it); an invocation that returns has reported
\* Degraded and returns an error if a step failed, and has reported
\* Available otherwise; it returns nil only without a step error and with
\* the record saying Available.
C9_OutcomeReporting ==
  \A l \in Loops :
    /\ \A i \in 1..Len(ops[l]) :
         ops[l][i] \in StepErrOps =>
           \A j \in (i + 1)..Len(ops[l]) : ops[l][j] \in StatusOps
    /\ pc[l] = "return" =>
         /\ StepErr(l) => /\ local[l].outcome = "Degraded"
                          /\ local[l].result = "err"
                          /\ ~local[l].statusErr =>
                               clusterOperator.conds[l] = "Degraded"
         /\ ~StepErr(l) => /\ local[l].outcome = "Available"
                           /\ ~local[l].statusErr =>
                                /\ local[l].result = "nil"
                                /\ clusterOperator.conds[l] = "Available"
         /\ local[l].result = "nil" =>
              ~StepErr(l) /\ clusterOperator.conds[l] = "Available"

\* C9 witness: an upsert that failed at its write, reported as Degraded
\* and returned as an error.
C9_Witness ==
  \E l \in Loops :
    /\ pc[l] = "return" /\ Has(ops[l], "patch:err")
    /\ local[l].result = "err" /\ clusterOperator.conds[l] = "Degraded"

\* C10: no partial commit.  A create or patch is the fifth call of its
\* invocation, after the Infrastructure read with the gate passed, the
\* service-account read with a prefixed reference found, the token secret
\* read with the derivation done, and the upsert's Get, in this order, and
\* what it writes is a derived document; after a missing service account,
\* reference or token secret, or a failed derivation, the invocation
\* makes no upsert call and reports Degraded.
C10_NoPartialCommit ==
  \A l \in Loops :
    /\ \A i \in 1..Len(ops[l]) :
         ops[l][i] \in WriteOps =>
           /\ i = 5
           /\ SubSeq(ops[l], 1, 4) =
                <<"getInfra:ok", "getServiceAccount:ok",
                  "generateKubeconfig:ok", "createOrPatch:get">>
           /\ local[l].infra.exists /\ local[l].infra.platformStatus
           /\ ~Gated(l)
           /\ HasPrefix(local[l].tokenSecretRef, TokenPrefix)
           /\ local[l].kubeconfigSecret.data["value"][2].ok
           /\ local[l].kubeconfigSecret.name = KubeconfigName(clusterName[l])
           /\ clusterName[l] # ""
    /\ (\E i \in 1..Len(ops[l]) :
          ops[l][i] \in {"getServiceAccount:err", "findTokenSecretRef:err",
                         "getTokenSecret:err", "generateKubeconfig:err"})
         => /\ \A i \in 1..Len(ops[l]) :
                 ops[l][i] \notin
                   WriteOps \cup {"createOrPatch:get", "createOrPatch:err"}
            /\ local[l].outcome = "Degraded"

\* C10 witness: the derivation failed on an empty input without any fault
\* injected; the invocation returned with the record saying Degraded.
C10_Witness ==
  \E l \in Loops :
    /\ pc[l] = "return" /\ Has(ops[l], "generateKubeconfig:err")
    /\ faults = MaxFaults /\ clusterOperator.conds[l] = "Degraded"

\* The object a filter inspects in the notification: the current snapshot
\* of an update, the object of a create, delete or generic notification.
Inspected ==
  IF notification.type = "Update" THEN notification.objectNew
  ELSE notification.object

\* What one filter's answer has to be for the inspected object.
FilterAnswers(answer, kind, name) ==
  /\ answer \in BOOLEAN
  /\ Inspected.name # name => ~answer
  /\ Inspected.kind # kind => ~answer
  /\ Inspected.kind = kind /\ Inspected.name = name => answer

\* C11: event filter admission.  For each of the three filters and each of
\* the four notification types, an object whose name differs from the
\* filter's fixed name is rejected, the singleton of the filter's own kind
\* is admitted, and an object of another kind (or no object) is rejected;
\* the answer is always a boolean.
C11_EventFilterAdmission ==
  notification.type \in {"Create", "Update", "Delete", "Generic"} =>
    /\ FilterAnswers(admit.clusterOperator, "ClusterOperator", "cluster-api")
    /\ FilterAnswers(admit.infrastructure, "Infrastructure", "cluster")
    /\ FilterAnswers(admit.featureGate, "FeatureGate", "cluster")

\* An update of the FeatureGate singleton, whose name is also the
\* Infrastructure singleton's: the feature gate filter alone admits it.
C11_Witness ==
  /\ notification.type = "Update"
  /\ Inspected = [kind |-> "FeatureGate", name |-> "cluster"]
  /\ admit.featureGate /\ ~admit.infrastructure /\ ~admit.clusterOperator

\* How many times x occurs among the steps of an invocation.
Count(seq, x) == Cardinality({i \in 1..Len(seq) : seq[i] = x})

\* C12: bounded retry of the status writer.  A read of the cycle takes the
\* record as stored; a compare-and-write either goes through (the outcome
\* is written), or meets a conflict and goes back to the read while fewer
\* than MaxAttempts cycles were started, or ends the write with an error
\* that Reconcile returns.  No status write starts more than MaxAttempts
\* cycles.
C12_BoundedRetry ==
  [][\A l \in Loops :
       /\ pc[l] = "statusGet" /\ pc'[l] = "statusUpdate"
            => local'[l].co = clusterOperator
       /\ pc[l] = "statusUpdate" /\ pc'[l] # "statusUpdate"
            => /\ Count(ops'[l], "status:get") <= MaxAttempts
               /\ \/ /\ pc'[l] = "statusGet"
                     /\ local[l].co.rev # clusterOperator.rev
                     /\ Count(ops'[l], "status:get") < MaxAttempts
                     /\ clusterOperator' = clusterOperator
                  \/ /\ pc'[l] = "return"
                     /\ Last(ops'[l]) = "status:ok"
                     /\ clusterOperator'.conds[l] = local[l].outcome
                  \/ /\ pc'[l] = "return"
                     /\ Last(ops'[l]) = "status:err"
                     /\ local'[l].result = "err"
                     /\ clusterOperator' = clusterOperator]_vars

\* A status write that met a conflict in every cycle it was allowed and
\* ended with the terminal error.
C12_Witness ==
  \E l \in Loops :
    /\ pc[l] = "return"
    /\ Count(ops[l], "status:conflict") = MaxAttempts - 1
    /\ Count(ops[l], "status:get") = MaxAttempts
    /\ Last(ops[l]) = "status:err"
    /\ local[l].result = "err"

\* The inputs of the last derivation call that were empty.
EmptyInputs ==
  {f \in {"token", "caCert", "apiServerEnpoint", "clusterName"} :
     options[f] = ""}
Derived == options # NoOptions

\* C13: the derivation is all-or-nothing.  A call with exactly one of the
\* four inputs empty returns the error with a nil document, and a call
\* that returns the error never leaves a cluster, context or auth entry.
C13_AllOrNothing ==
  Derived =>
    /\ Cardinality(EmptyInputs) = 1 => ~document.ok
    /\ ~document.ok => /\ DOMAIN document.clusters = {}
                       /\ DOMAIN document.contexts = {}
                       /\ DOMAIN document.authInfos = {}

\* The call of generate_test.go:47-52: only the CA certificate is empty.
C13_Witness ==
  /\ EmptyInputs = {"caCert"}
  /\ options.token = "dGVzdA==" /\ options.clusterName = "test"
  /\ ~document.ok /\ DOMAIN document.clusters = {}

\* What the document of a successful derivation holds apart from the token:
\* one cluster entry keyed by the name with the endpoint and the CA input,
\* one context entry keyed by the name bound to the cluster name, the auth
\* name and the managed namespace, and the auth entry.
EchoesClusterAndContext ==
  /\ document.ok
  /\ options.clusterName \in DOMAIN document.clusters
  /\ document.clusters[options.clusterName].server = options.apiServerEnpoint
  /\ document.clusters[options.clusterName].ca = options.caCert
  /\ options.clusterName \in DOMAIN document.contexts
  /\ document.contexts[options.clusterName] =
       [cluster |-> options.clusterName,
        authInfo |-> "cluster-capi-operator",
        namespace |-> "openshift-cluster-api"]
  /\ "cluster-capi-operator" \in DOMAIN document.authInfos

\* C14 as stated: for non-empty inputs the derivation succeeds, the cluster
\* and context entries echo the inputs, and the auth entry's token equals
\* the token input.
C14_EchoesInputs ==
  Derived /\ EmptyInputs = {} =>
    /\ EchoesClusterAndContext
    /\ document.authInfos["cluster-capi-operator"].token = options.token

\* The base64 texts of the token domain and what they encode.
Base64Text == [t \in {"dGVzdA==", "dDI="} |-> IF t = "dDI=" THEN "t2" ELSE "test"]

\* C14, amended: for non-empty inputs with a base64 token the derivation
\* succeeds, the cluster and context entries echo the inputs, and the auth
\* entry's token is the text the token input encodes ("dGVzdA==" gives
\* "test"), not the input itself.
C14_EchoesInputsTokenDecoded ==
  Derived /\ EmptyInputs = {} =>
    /\ EchoesClusterAndContext
    /\ document.authInfos["cluster-capi-operator"].token =
         Base64Text[options.token]
    /\ document.authInfos["cluster-capi-operator"].token # options.token

\* The call of generate_test.go:13-38.
C14_Witness ==
  /\ options = [token |-> "dGVzdA==", caCert |-> "dGVzdA==",
                apiServerEnpoint |-> "https://example.com",
                clusterName |-> "test"]
  /\ document.ok
  /\ document.authInfos["cluster-capi-operator"].token = "test"

\* C15: trigger-payload independence.  Whatever Reconcile does when handed
\* one request (its reads, r.clusterName, the outcome it heads for, the
\* error it will return), it does the same from the same state when handed
\* any other request: every Reconcile step for a request r1 is also the
\* Reconcile step for every request r2.  The later steps of the invocation
\* have no request in scope.
C15_RequestIgnored ==
  [][\A l \in Loops : \A r1, r2 \in Requests :
       ReconcileRequest(l, r1) => ReconcileRequest(l, r2)]_vars

\* An invocation that was started by a request and read the Infrastructure
\* record under its fixed name.
C15_Witness ==
  \E l \in Loops :
    /\ ops[l] = <<"getInfra:ok">> /\ pc[l] = "getServiceAccount"
    /\ local[l].infra = infra /\ infra.exists
    /\ clusterName[l] = infra.name

\* C16: deterministic identity of the secondary record.  A create or patch
\* that goes through writes the one record named "<cluster name>-kubeconfig"
\* of the managed namespace's secrets, labelled with the same cluster name,
\* where the cluster name is the infrastructure name this invocation read
\* from the Infrastructure record; no record of another name is written.
C16_DeterministicIdentity ==
  [][\A l \in Loops :
       UpsertOk(l) =>
         LET c == local[l].infra.name
             n == <<c, "-kubeconfig">>
         IN /\ n \in DOMAIN secrets'
            /\ secrets'[n].name = n
            /\ MapGet(secrets'[n].labels, "cluster.x-k8s.io/cluster-name") = c
            /\ \A m \in DOMAIN secrets' \ {n} :
                 m \in DOMAIN secrets /\ secrets'[m] = secrets[m]]_vars

\* An invocation that has just created the record of cluster name c2, in a
\* store that holds the record an earlier invocation wrote for c1.
C16_Witness ==
  \E l \in Loops :
    /\ pc[l] = "statusGet" /\ Last(ops[l]) = "create:ok"
    /\ local[l].infra.name = "c2" /\ clusterName[l] = "c2"
    /\ {<<"c1", "-kubeconfig">>, <<"c2", "-kubeconfig">>} \subseteq DOMAIN secrets
    /\ MapGet(secrets[<<"c2", "-kubeconfig">>].labels,
              "cluster.x-k8s.io/cluster-name") = "c2"

\* C17: read-only inputs.  A step of the loop leaves the Infrastructure
\* record and the service account as they are, leaves every service
\* account token secret as it is, and deletes no secret; the only secret it
\* creates or changes is the Secondary Secret Record of the invocation, in
\* its create or patch call, and the only other record it changes is the
\* Aggregate Status Record, in the write of its status cycle.
C17_ReadOnlyInputs ==
  [][\A l \in Loops :
       pc'[l] # pc[l] =>
         /\ infra' = infra /\ serviceAccount' = serviceAccount
         /\ DOMAIN secrets \subseteq DOMAIN secrets'
         /\ \A n \in DOMAIN secrets :
              secrets[n].type = "kubernetes.io/service-account-token"
                => secrets'[n] = secrets[n]
         /\ \A n \in DOMAIN secrets' :
              (n \notin DOMAIN secrets \/ secrets'[n] # secrets[n])
                => /\ pc[l] \in {"create", "patch"}
                   /\ n = <<local[l].infra.name, "-kubeconfig">>
         /\ clusterOperator' # clusterOperator => pc[l] = "statusUpdate"]_vars

\* An invocation that has patched the Secondary Secret Record and written
\* its status, with the three records it read as they were.
C17_Witness ==
  \E l \in Loops :
    /\ pc[l] = "return" /\ Has(ops[l], "patch:ok")
    /\ Last(ops[l]) = "status:ok"
    /\ infra = local[l].infra /\ serviceAccount.exists
    /\ local[l].tokenSecretRef \in DOMAIN secrets
    /\ secrets[local[l].tokenSecretRef].type =
         "kubernetes.io/service-account-token"
    /\ secrets[local[l].tokenSecretRef].rv = 1

\* The answers that end a status write.
StatusResults == {"status:ok", "status:err"}

\* C18: exactly one status write per attempt.  The status calls of an
\* invocation are its last calls (no other store call follows one), the
\* status write ends once, with the last call of the invocation, and an
\* invocation that returns has made it; Reconcile returns nil only if the
\* write was of Available and went through, and returns an error if the
\* status write failed.
C18_OneStatusWrite ==
  \A l \in Loops :
    /\ \A i, j \in 1..Len(ops[l]) :
         i < j /\ ops[l][i] \in StatusOps => ops[l][j] \in StatusOps
    /\ \A i \in 1..Len(ops[l]) :
         ops[l][i] \in StatusResults => i = Len(ops[l]) /\ pc[l] = "return"
    /\ local[l].result # "" => pc[l] = "return"
    /\ pc[l] = "return" =>
         /\ Last(ops[l]) \in StatusResults
         /\ local[l].outcome \in {"Available", "Degraded"}
         /\ local[l].result \in {"nil", "err"}
         /\ local[l].result = "nil" =>
              /\ Last(ops[l]) = "status:ok"
              /\ local[l].outcome = "Available"
         /\ Last(ops[l]) = "status:err" => local[l].result = "err"

\* An invocation whose steps all succeeded and whose Available write
\* failed: it returns an error.
C18_Witness ==
  \E l \in Loops :
    /\ pc[l] = "return" /\ ~StepErr(l)
    /\ local[l].outcome = "Available"
    /\ Last(ops[l]) = "status:err"
    /\ local[l].result = "err"

\* The positions of the service account's secret references whose name
\* starts with "cluster-capi-operator-token".
Matching(refs) ==
  {i \in 1..Len(refs) :
     Len(refs[i]) >= 2 /\ refs[i][1] = "cluster-capi-operator"
                       /\ refs[i][2] = "-token"}

\* The calls that come after the selection of the reference.
AfterSelection ==
  {"getTokenSecret:err", "generateKubeconfig:err", "generateKubeconfig:ok",
   "createOrPatch:err", "createOrPatch:get", "create:ok", "create:err",
   "patch:ok", "patch:err"}

\* C19: token secret selection.  From a service account that was read, the
\* reference kept is the one at the last position whose name starts with
\* "cluster-capi-operator-token", and the token secret is then read under
\* that name; when no reference matches, the invocation fails there and
\* makes no token secret read and no later call.
C19_TokenSecretSelection ==
  [][\A l \in Loops :
       /\ (pc[l] = "getServiceAccount" /\ pc'[l] # pc[l]
           /\ faults' = faults /\ serviceAccount.exists)
            => LET refs == serviceAccount.secrets
               IN IF Matching(refs) = {}
                  THEN /\ Last(ops'[l]) = "findTokenSecretRef:err"
                       /\ pc'[l] = "statusGet" /\ local'[l].err
                  ELSE /\ pc'[l] = "getTokenSecret"
                       /\ \E i \in Matching(refs) :
                            /\ \A j \in Matching(refs) : j <= i
                            /\ local'[l].tokenSecretRef = refs[i]
       /\ (pc[l] = "getTokenSecret" /\ pc'[l] # pc[l] /\ faults' = faults)
            => (Last(ops'[l]) = "getTokenSecret:err"
                  <=> local[l].tokenSecretRef \notin DOMAIN secrets)
       /\ Has(ops'[l], "findTokenSecretRef:err")
            => \A i \in 1..Len(ops'[l]) : ops'[l][i] \notin AfterSelection]_vars

\* Two references match and the later one, in list order, was kept.
C19_Witness ==
  \E l \in Loops :
    /\ pc[l] = "getTokenSecret"
    /\ serviceAccount.exists
    /\ Matching(serviceAccount.secrets) = {1, 2}
    /\ local[l].tokenSecretRef = serviceAccount.secrets[2]
    /\ local[l].tokenSecretRef # serviceAccount.secrets[1]

\* The platform types of the model, lower-cased.
LowerCased ==
  [t \in {"", "AWS", "Azure", "BareMetal"} |->
     CASE t = "AWS" -> "aws" [] t = "Azure" -> "azure"
       [] t = "BareMetal" -> "baremetal" [] OTHER -> ""]

\* C20: platform applicability test.  An invocation goes on from its read
\* of the Infrastructure record to the derive-and-upsert path if and only
\* if the record was read, has a platform status, and its lower-cased
\* platform type is a key of SupportedPlatforms, whatever boolean is stored
\* under the key.
C20_PlatformApplicability ==
  \A l \in Loops :
    ops[l] # <<>> =>
      /\ ops[l][1] = "getInfra:ok"
           <=> /\ local[l].infra.exists /\ local[l].infra.platformStatus
               /\ LowerCased[local[l].infra.type] \in DOMAIN SupportedPlatforms
      /\ ops[l][1] # "getInfra:ok" => OnlyStatusAfterFirst(l)
      /\ (ops[l][1] = "getInfra:ok" /\ Len(ops[l]) >= 2)
           => ops[l][2] \in {"getServiceAccount:err", "findTokenSecretRef:err",
                             "getServiceAccount:ok"}

\* A platform whose key holds FALSE: the invocation went on to read the
\* service account.
C20_Witness ==
  \E l \in Loops :
    /\ local[l].infra.type = "Azure" /\ local[l].infra.platformStatus
    /\ "azure" \in DOMAIN SupportedPlatforms /\ ~SupportedPlatforms["azure"]
    /\ Len(ops[l]) >= 2
    /\ ops[l][1] = "getInfra:ok" /\ ops[l][2] = "getServiceAccount:ok"

====
